---- MODULE Spec2Model ----
(***************************************************************************)
(* State machine of the Rach client (src/RachPy/Rach.py): the supervising  *)
(* loop (sock_manager), the request correlation table (request_map), the   *)
(* topic registries (callbacks, sub_topics, pub_topics), the dispatcher    *)
(* (process_msg) and the caller operations.                                *)
(*                                                                         *)
(* Strings are sequences of one-character strings, dicts are functions    *)
(* whose DOMAIN is the key set.  Caller operations run in caller contexts *)
(* (Callers); inbound frames are processed in the supervising threads.    *)
(***************************************************************************)
EXTENDS Integers, Sequences, FiniteSets, TLC

\* ------------------------------------------------------------------ bounds
MaxMatcher == 2
MaxThreads == 2
\* matchers allowed beyond MaxMatcher to a removal request for a topic whose
\* removal is already pending
MaxRepeat == 1
\* longest topic string handed to get_fully_qualified_topic on its own
MaxTopicLen == 4

\* ------------------------------------------------------------------ inputs
Callers == {"c1", "c2"}
Threads == 1..MaxThreads

\* raw topics handed to add_sub/rm_sub/add_pub/rm_pub/pub/service_call
TopicInputs == { <<"a">>, <<"a", "/">> }
\* namespaces handed to set_namespace
NsInputs == { <<"n">>, <<"/">> }
\* (callback, args) pairs handed to add_sub
SubInputs == { [cb |-> "f", args |-> <<"x", "y">>], [cb |-> "g", args |-> <<>>] }
\* topics carried by inbound pub pushes
PushTopics == { <<"/", "/", "a">>, <<"/", "b">> }

NoMatcher == <<"None">>
NoTopic == <<>>

\* ------------------------------------------------------------ dict helpers
EmptyDict == [k \in {} |-> TRUE]
Put(d, k, v) == [x \in (DOMAIN d) \cup {k} |-> IF x = k THEN v ELSE d[x]]
Pop(d, k) == [x \in (DOMAIN d) \ {k} |-> d[x]]

\* a dict whose values are all True is kept as the sequence of its keys
Keys(q) == {q[i] : i \in 1..Len(q)}
KeyAdd(q, k) == IF k \in Keys(q) THEN q ELSE Append(q, k)
KeyDel(q, k) == SelectSeq(q, LAMBDA x : x # k)

\* ------------------------------------------------------- string functions
Digit(n) == CASE n = 0 -> "0" [] n = 1 -> "1" [] n = 2 -> "2" [] n = 3 -> "3"
              [] n = 4 -> "4" [] n = 5 -> "5" [] n = 6 -> "6" [] n = 7 -> "7"
              [] n = 8 -> "8" [] OTHER -> "9"

\* str(n) for a non-negative int: its decimal digits
RECURSIVE Str(_)
Str(n) == IF n < 10 THEN <<Digit(n)>> ELSE Str(n \div 10) \o <<Digit(n % 10)>>

\* set_namespace: the value stored in self.ns
set_namespace(n) ==
  LET n1 == IF Len(n) > 1 /\ n[Len(n)] = "/" THEN SubSeq(n, 1, Len(n) - 1) ELSE n
  IN  IF n1[1] # "/" THEN <<"/">> \o n1 ELSE n1

get_fully_qualified_topic(nsv, topic) ==
  LET t1 == IF Len(topic) > 1 /\ topic[Len(topic)] = "/"
            THEN SubSeq(topic, 1, Len(topic) - 1) ELSE topic
  IN  IF t1[1] = "/" THEN t1
      ELSE nsv \o (IF nsv = <<>> THEN <<>> ELSE <<"/">>) \o t1

\* --------------------------------------------------------------- variables
VARIABLES
  killed,        \* self.killed
  connected,     \* self.connected
  ns,            \* self.ns
  matcher,       \* self.matcher
  callbacks,     \* self.callbacks: topic -> [cb, args]
  request_map,   \* self.request_map: matcher string -> pending record
  pub_topics,    \* keys of self.pub_topics, in insertion order
  sub_topics,    \* keys of self.sub_topics, in insertion order
  nthreads,      \* threads created so far; self.sock_manager_thread is the last
  keep_running,  \* the WebSocketApp is asked to keep its session running
  pc,            \* position of each supervising thread
  tjoin,         \* thread a supervising thread waits for inside stop()
  cpc,           \* position of each caller context
  cop,           \* the operation a caller context is in the middle of
  handles,       \* topics of the Publisher handles returned so far
  sent,          \* frames handed to the transport by the last step
  calls,         \* callback invocations made by the last step
  ev,            \* what the last step was
  resolved,      \* matchers for which a callback invocation has happened
  ackSub,        \* topic -> callback of the addSub last resolved by an ack frame
  okSub,         \* topic -> callback of the addSub last resolved successfully
  subAsked,      \* topics of the add_sub calls made since the last rmSub ack
  lastIssued,    \* the value make_req_matcher returned last
  stopReturned   \* a stop() call has returned and no start() was called since

vars == <<killed, connected, ns, matcher, callbacks, request_map, pub_topics,
          sub_topics, nthreads, keep_running, pc, tjoin, cpc, cop, handles,
          sent, calls, ev, resolved, ackSub, okSub, subAsked, lastIssued,
          stopReturned>>

\* variable groups
registries == <<callbacks, pub_topics, sub_topics>>
history == <<resolved, ackSub, okSub, subAsked, lastIssued>>
threadv == <<nthreads, keep_running, pc, tjoin>>

\* the locals of the operation in progress; todo/used are the dict iterator of
\* rm_all_sub / rm_all_pub (keys still to come, size the dict must keep),
\* subs0/pubs0/log/wasConn record what a stop() call found and sent
NoOp == [op |-> "-", topic |-> NoTopic, cb |-> "-", args |-> <<>>, loaded |-> 0,
         todo |-> <<>>, used |-> 0, subs0 |-> {}, pubs0 |-> {}, log |-> <<>>,
         wasConn |-> FALSE]
Ev(kind, op, who, topic, m, rk, flag) ==
  [kind |-> kind, op |-> op, who |-> who, topic |-> topic, m |-> m, rk |-> rk,
   flag |-> flag]

Init ==
  /\ killed = FALSE
  /\ connected = FALSE
  /\ ns = <<"/">>
  /\ matcher = 0
  /\ callbacks = EmptyDict
  /\ request_map = EmptyDict
  /\ pub_topics = <<>>
  /\ sub_topics = <<>>
  /\ nthreads = 0
  /\ keep_running = FALSE
  /\ pc = [t \in Threads |-> "unborn"]
  /\ tjoin = [t \in Threads |-> 0]
  /\ cpc = [c \in Callers |-> "idle"]
  /\ cop = [c \in Callers |-> NoOp]
  /\ handles = {}
  /\ sent = <<>>
  /\ calls = <<>>
  /\ ev = Ev("init", "-", "-", NoTopic, NoMatcher, "-", FALSE)
  /\ resolved = {}
  /\ ackSub = EmptyDict
  /\ okSub = EmptyDict
  /\ subAsked = {}
  /\ lastIssued = 0
  /\ stopReturned = FALSE

\* ---------------------------------------------------------- pending records
ListArgs(v) == [typ |-> "list", v |-> v]
TupleArgs(v) == [typ |-> "tuple", v |-> v]
NoneArgs == [typ |-> "none", v |-> <<>>]

\* (success callback, success args, error callback, error args) as stored in
\* request_map; topic/ucb/uargs are the values the stored tuple refers to
Rec(kind, topic, scb, sargs, ecb, eargs, ucb, uargs) ==
  [kind |-> kind, topic |-> topic, scb |-> scb, sargs |-> sargs, ecb |-> ecb,
   eargs |-> eargs, ucb |-> ucb, uargs |-> uargs]

AddSubRec(o) ==
  Rec("addSub", o.topic, "add_callback",
      TupleArgs(<<"self", "topic", "callback", "args">>),
      "empty_callback", TupleArgs(<<"self">>), o.cb, o.args)
RmSubRec(topic) ==
  Rec("rmSub", topic, "rm_callback", TupleArgs(<<"self", "topic">>),
      "empty_callback", TupleArgs(<<"self">>), "-", <<>>)
AddPubRec(o) ==
  Rec("addPub", o.topic, "add_pub_callback", TupleArgs(<<"self", "topic">>),
      "empty_callback", TupleArgs(<<"self">>), "-", <<>>)
RmPubRec(topic) ==
  Rec("rmPub", topic, "rm_pub_callback", TupleArgs(<<"self", "topic">>),
      "empty_callback", TupleArgs(<<"self">>), "-", <<>>)
ServiceRec(o) ==
  Rec("service", o.topic, "on_result", ListArgs(<<"r">>), "on_err",
      ListArgs(<<"e">>), "-", <<>>)
PingRec(o) ==
  Rec("ping", NoTopic, "on_success", NoneArgs, "on_fail", NoneArgs, "-", <<>>)

OpRec(o) ==
  CASE o.op = "add_sub" -> AddSubRec(o)
    [] o.op = "rm_sub" -> RmSubRec(o.topic)
    [] o.op = "add_pub" -> AddPubRec(o)
    [] o.op = "rm_pub" -> RmPubRec(o.topic)
    [] o.op = "service_call" -> ServiceRec(o)
    [] OTHER -> PingRec(o)

FrameType(op) ==
  CASE op = "add_sub" -> "addSub" [] op = "rm_sub" -> "rmSub"
    [] op = "add_pub" -> "addPub" [] op = "rm_pub" -> "rmPub"
    [] op = "pub" -> "pub" [] op = "service_call" -> "service"
    [] OTHER -> "cs_ping"

Frame(type, m, topic) == [type |-> type, matcher |-> m, topic |-> topic]
Call(fn, args, m) == [fn |-> fn, args |-> args, m |-> m]

\* ------------------------------------------------------- caller operations
\* mutants of the guards: each looks the topic up in the other registry
AddSubSkips_OtherMap(topic) == topic \in Keys(pub_topics)
PubSkips_OtherMap(topic) == topic \notin Keys(sub_topics)

\* the guards that make an operation return without sending
AddSubSkips(topic) == topic \in Keys(sub_topics)
RmSubSkips(topic) == topic \notin Keys(sub_topics)
AddPubSkips(topic) == topic \in Keys(pub_topics)
RmPubSkips(topic) == topic \notin Keys(pub_topics)
PubSkips(topic) == topic \notin Keys(pub_topics)

\* history: whether this add_sub call follows another on the same topic
Again(op, topic) ==
  IF op = "add_sub" THEN (IF topic \in subAsked THEN "again" ELSE "first") ELSE "-"
Asked(op, topic) == IF op = "add_sub" THEN subAsked \cup {topic} ELSE subAsked

\* the operation returns at its guard: nothing is sent, nothing is stored
Return(c, op, topic) ==
  /\ ev' = Ev("ret", op, c, topic, NoMatcher, Again(op, topic), connected)
  /\ subAsked' = Asked(op, topic)
  /\ sent' = <<>>
  /\ calls' = <<>>
  /\ UNCHANGED <<killed, connected, ns, matcher, request_map, registries,
                 threadv, cpc, cop, handles, resolved, ackSub, okSub,
                 lastIssued, stopReturned>>

\* the request repeats a removal that is still pending
Repeats(o) ==
  /\ o.op \in {"rm_sub", "rm_pub"}
  /\ \E m \in DOMAIN request_map :
       request_map[m].kind = FrameType(o.op) /\ request_map[m].topic = o.topic

\* the operation goes on to make_req_matcher: self.matcher is loaded
Enter(c, o) ==
  /\ matcher < MaxMatcher + (IF Repeats(o) THEN MaxRepeat ELSE 0)
  /\ cpc' = [cpc EXCEPT ![c] = "store"]
  /\ cop' = [cop EXCEPT ![c] = o]
  /\ ev' = Ev("call", o.op, c, o.topic, NoMatcher, "-", connected)
  /\ sent' = <<>>
  /\ calls' = <<>>
  /\ UNCHANGED <<killed, connected, ns, matcher, request_map, registries,
                 threadv, handles, history, stopReturned>>

Op(op, topic, cb, args) ==
  [NoOp EXCEPT !.op = op, !.topic = topic, !.cb = cb, !.args = args,
               !.loaded = matcher]

add_sub(c) ==
  /\ cpc[c] = "idle"
  /\ \E raw \in TopicInputs, s \in SubInputs :
       LET topic == get_fully_qualified_topic(ns, raw)
       IN  IF AddSubSkips(topic) THEN Return(c, "add_sub", topic)
           ELSE Enter(c, Op("add_sub", topic, s.cb, s.args))

rm_sub(c) ==
  /\ cpc[c] = "idle"
  /\ \E raw \in TopicInputs :
       LET topic == get_fully_qualified_topic(ns, raw)
       IN  IF RmSubSkips(topic) THEN Return(c, "rm_sub", topic)
           ELSE Enter(c, Op("rm_sub", topic, "-", <<>>))

add_pub(c) ==
  /\ cpc[c] = "idle"
  /\ \E raw \in TopicInputs :
       LET topic == get_fully_qualified_topic(ns, raw)
       IN  IF AddPubSkips(topic) THEN Return(c, "add_pub", topic)
           ELSE Enter(c, Op("add_pub", topic, "-", <<>>))

\* rm_pub(topic), also reached through Publisher.close()
rm_pub(c) ==
  /\ cpc[c] = "idle"
  /\ \E raw \in TopicInputs \cup handles :
       LET topic == get_fully_qualified_topic(ns, raw)
       IN  IF RmPubSkips(topic) THEN Return(c, "rm_pub", topic)
           ELSE Enter(c, Op("rm_pub", topic, "-", <<>>))

\* pub(topic, data), also reached through Publisher.pub(data)
pub(c) ==
  /\ cpc[c] = "idle"
  /\ \E raw \in TopicInputs \cup handles :
       LET topic == get_fully_qualified_topic(ns, raw)
       IN  IF PubSkips(topic) THEN Return(c, "pub", topic)
           ELSE Enter(c, Op("pub", topic, "-", <<>>))

service_call(c) ==
  /\ cpc[c] = "idle"
  /\ Enter(c, Op("service_call", <<"s">>, "-", <<>>))

ping(c) ==
  /\ cpc[c] = "idle"
  /\ Enter(c, Op("ping", NoTopic, "-", <<>>))

\* make_req_matcher, "self.matcher += 1": the loaded value plus one is stored
make_req_matcher_store(c) ==
  /\ cpc[c] = "store"
  /\ matcher' = cop[c].loaded + 1
  /\ cpc' = [cpc EXCEPT ![c] = "send"]
  /\ ev' = Ev("step", cop[c].op, c, cop[c].topic, NoMatcher, "-", connected)
  /\ sent' = <<>>
  /\ calls' = <<>>
  /\ UNCHANGED <<killed, connected, ns, request_map, registries, threadv, cop,
                 handles, history, stopReturned>>

\* make_req_matcher, "return str(self.matcher)"
make_req_matcher_return == Str(matcher)

\* send(msg, callback): the frames handed to the transport
SendFrames(msg) == IF connected THEN <<msg>> ELSE <<>>
\* send(msg, callback): the calls made to the callback's target; only ping
\* passes a callback, which forwards a not-None argument to on_fail
SendCalls(o, m) ==
  IF ~connected /\ o.op = "ping" THEN <<Call("on_fail", <<"True">>, m)>>
  ELSE <<>>

\* the records an operation leaves in request_map
StoreRecord(o, m) ==
  IF o.op = "pub" THEN request_map ELSE Put(request_map, m, OpRec(o))

\* the rest of the operation: the matcher is read back, the record is stored
\* and the frame is sent
op_send(c) ==
  /\ cpc[c] = "send"
  /\ LET o == cop[c]
         m == make_req_matcher_return
     IN  /\ request_map' = StoreRecord(o, m)
         /\ sent' = SendFrames(Frame(FrameType(o.op), m, o.topic))
         /\ calls' = SendCalls(o, m)
         /\ resolved' = resolved \cup {calls'[i].m : i \in 1..Len(calls')}
         /\ handles' = IF o.op = "add_pub" THEN handles \cup {o.topic} ELSE handles
         /\ ev' = Ev("done", o.op, c, o.topic, m, Again(o.op, o.topic), connected)
         /\ subAsked' = Asked(o.op, o.topic)
  /\ lastIssued' = matcher
  /\ cpc' = [cpc EXCEPT ![c] = "idle"]
  /\ cop' = [cop EXCEPT ![c] = NoOp]
  /\ UNCHANGED <<killed, connected, ns, matcher, registries, threadv, ackSub,
                 okSub, stopReturned>>

set_namespace_op(c) ==
  /\ cpc[c] = "idle"
  /\ \E n \in NsInputs : ns' = set_namespace(n)
  /\ ev' = Ev("ret", "set_namespace", c, NoTopic, NoMatcher, "-", connected)
  /\ sent' = <<>>
  /\ calls' = <<>>
  /\ UNCHANGED <<killed, connected, matcher, request_map, registries, threadv,
                 cpc, cop, handles, history, stopReturned>>

\* ------------------------------------------------------------ start / stop
\* start(): the flags are reset and a new supervising thread is started
start(c) ==
  /\ cpc[c] = "idle"
  /\ nthreads < MaxThreads
  /\ killed' = FALSE
  /\ connected' = FALSE
  /\ nthreads' = nthreads + 1
  /\ pc' = [pc EXCEPT ![nthreads + 1] = "check"]
  /\ stopReturned' = FALSE
  /\ ev' = Ev("ret", "start", c, NoTopic, NoMatcher, "-", connected)
  /\ sent' = <<>>
  /\ calls' = <<>>
  /\ UNCHANGED <<ns, matcher, request_map, registries, keep_running, tjoin,
                 cpc, cop, handles, history>>

\* rm_all_sub / rm_all_pub: rm_sub / rm_pub on every key, in dict order; st is
\* the running [matcher, request_map, sent]
RmOne(kind, key, present, st) ==
  LET topic == get_fully_qualified_topic(ns, key)
      m == Str(st.matcher + 1)
  IN  IF topic \notin present THEN st
      ELSE [matcher |-> st.matcher + 1,
            request_map |-> Put(st.request_map, m,
                                IF kind = "rmSub" THEN RmSubRec(topic)
                                ELSE RmPubRec(topic)),
            sent |-> st.sent \o SendFrames(Frame(kind, m, topic))]

RECURSIVE RmAll(_, _, _, _)
RmAll(kind, keys, present, st) ==
  IF keys = <<>> THEN st
  ELSE RmAll(kind, Tail(keys), present, RmOne(kind, Head(keys), present, st))

rm_all_sub(st) == RmAll("rmSub", sub_topics, Keys(sub_topics), st)
rm_all_pub(st) == RmAll("rmPub", pub_topics, Keys(pub_topics), st)

\* stop() up to sock.close() when it runs in the receive thread, where no
\* frame is processed meanwhile: the kill flag, rm_all_sub(), rm_all_pub()
StopRequests ==
  LET st == rm_all_pub(rm_all_sub([matcher |-> matcher,
                                   request_map |-> request_map, sent |-> <<>>]))
  IN  /\ Len(sub_topics) + Len(pub_topics) + matcher <= MaxMatcher
      /\ killed' = TRUE
      /\ matcher' = st.matcher
      /\ lastIssued' = IF st.matcher = matcher THEN lastIssued ELSE st.matcher
      /\ request_map' = st.request_map
      /\ sent' = st.sent

\* "for topic in <dict>: self.rm_xxx(topic)".  A turn asks the dict iterator
\* for the next key: the iterator raises RuntimeError when the dict has another
\* size than when the loop began, which ends stop(); it ends the loop when no
\* key is left; otherwise rm_sub / rm_pub runs on the key.  A step of stop()
\* runs up to and including its next rm_sub / rm_pub call, or to the end of
\* both loops.  The result of a step: where stop() is then, its locals, and the
\* matcher counter, request_map and sent frames it leaves.
Turn(at, o, m, rm, out, raised) ==
  [at |-> at, o |-> o, matcher |-> m, request_map |-> rm, sent |-> out,
   raised |-> raised]

Removal(at, kind, q, o) ==
  LET st == RmOne(kind, Head(o.todo), Keys(q),
                  [matcher |-> matcher, request_map |-> request_map, sent |-> <<>>])
  IN  Turn(at, [o EXCEPT !.todo = Tail(o.todo), !.log = o.log \o st.sent,
                         !.wasConn = o.wasConn /\ connected],
           st.matcher, st.request_map, st.sent, FALSE)

\* a turn of rm_all_pub's loop
PubTurn(o) ==
  IF Len(pub_topics) # o.used THEN Turn("idle", o, matcher, request_map, <<>>, TRUE)
  ELSE IF o.todo = <<>> THEN Turn("stop_close", o, matcher, request_map, <<>>, FALSE)
  ELSE Removal("stop_pub", "rmPub", pub_topics, o)

\* a turn of rm_all_sub's loop; when it ends, rm_all_pub's loop begins
SubTurn(o) ==
  IF Len(sub_topics) # o.used THEN Turn("idle", o, matcher, request_map, <<>>, TRUE)
  ELSE IF o.todo = <<>>
       THEN PubTurn([o EXCEPT !.todo = pub_topics, !.used = Len(pub_topics)])
  ELSE Removal("stop_sub", "rmSub", sub_topics, o)

\* the step of stop() whose result is r
StopStep(c, kind, r) ==
  /\ r.matcher <= MaxMatcher
  /\ cpc' = [cpc EXCEPT ![c] = r.at]
  /\ cop' = [cop EXCEPT ![c] = IF r.raised THEN NoOp ELSE r.o]
  /\ matcher' = r.matcher
  /\ lastIssued' = IF r.matcher = matcher THEN lastIssued ELSE r.matcher
  /\ request_map' = r.request_map
  /\ sent' = r.sent
  /\ calls' = <<>>
  /\ ev' = Ev(IF r.raised THEN "raise" ELSE kind, "stop", c, NoTopic, NoMatcher,
              "-", IF r.raised THEN r.o.wasConn /\ connected ELSE connected)
  /\ UNCHANGED <<connected, ns, registries, threadv, handles, resolved, ackSub,
                 okSub, subAsked, stopReturned>>

\* stop(): the kill flag is set, rm_all_sub() begins
stop_begin(c) ==
  /\ cpc[c] = "idle"
  /\ killed' = TRUE
  /\ StopStep(c, "call",
              SubTurn([NoOp EXCEPT !.op = "stop", !.todo = sub_topics,
                                   !.used = Len(sub_topics),
                                   !.subs0 = Keys(sub_topics),
                                   !.pubs0 = Keys(pub_topics),
                                   !.wasConn = connected]))

\* stop(): rm_all_sub() goes on
stop_rm_all_sub(c) ==
  /\ cpc[c] = "stop_sub"
  /\ StopStep(c, "step", SubTurn(cop[c]))
  /\ UNCHANGED killed

\* stop(): rm_all_pub() goes on
stop_rm_all_pub(c) ==
  /\ cpc[c] = "stop_pub"
  /\ StopStep(c, "step", PubTurn(cop[c]))
  /\ UNCHANGED killed

\* stop(): self.sock.close(), then the thread to join is read
stop_close(c) ==
  /\ cpc[c] = "stop_close"
  /\ keep_running' = FALSE
  /\ cpc' = [cpc EXCEPT ![c] = "stop_join"]
  /\ cop' = [cop EXCEPT ![c] = [NoOp EXCEPT !.op = "stop", !.loaded = nthreads]]
  /\ ev' = Ev("step", "stop", c, NoTopic, NoMatcher, "-", connected)
  /\ sent' = <<>>
  /\ calls' = <<>>
  /\ UNCHANGED <<killed, connected, ns, matcher, request_map, registries,
                 nthreads, pc, tjoin, handles, history, stopReturned>>

\* join() returns once the thread it waits for has finished
JoinReturns(target) == IF target = 0 THEN TRUE ELSE pc[target] = "done"

\* stop(): self.sock_manager_thread.join() returns, and stop() with it
stop_join(c) ==
  /\ cpc[c] = "stop_join"
  /\ JoinReturns(cop[c].loaded)
  /\ cpc' = [cpc EXCEPT ![c] = "idle"]
  /\ cop' = [cop EXCEPT ![c] = NoOp]
  /\ stopReturned' = TRUE
  /\ ev' = Ev("done", "stop", c, NoTopic, NoMatcher, "-", connected)
  /\ sent' = <<>>
  /\ calls' = <<>>
  /\ UNCHANGED <<killed, connected, ns, matcher, request_map, registries,
                 threadv, handles, history>>

\* ------------------------------------------------------- supervising loop
ThreadStep(t, from, to, what) ==
  /\ pc[t] = from
  /\ pc' = [pc EXCEPT ![t] = to]
  /\ ev' = Ev("loop", what, "thread", NoTopic, NoMatcher, "-", FALSE)
  /\ sent' = <<>>
  /\ calls' = <<>>
  /\ UNCHANGED <<killed, ns, matcher, request_map, registries, nthreads, tjoin,
                 cpc, cop, handles, history, stopReturned>>

\* mutant of LoopContinues: the loop does not look at the kill flag
LoopContinues_Always == TRUE

\* "while not self.killed"
LoopContinues == ~killed

loop_check(t) ==
  /\ ThreadStep(t, "check", IF LoopContinues THEN "call" ELSE "done", "-")
  /\ UNCHANGED <<connected, keep_running>>

\* self.sock.run_forever() begins a transport session
run_forever(t) ==
  /\ ThreadStep(t, "call", "conn", "run_forever")
  /\ keep_running' = TRUE
  /\ UNCHANGED connected

\* self.sock.run_forever() on the WebSocketApp another thread is running a
\* session on: the library may refuse it, which ends this thread
run_forever_raises(t) ==
  /\ \E u \in Threads \ {t} : pc[u] \in {"conn", "run", "msg", "injoin", "closing"}
  /\ ThreadStep(t, "call", "done", "-")
  /\ UNCHANGED <<connected, keep_running>>

ws_on_open(t) ==
  /\ keep_running
  /\ ThreadStep(t, "conn", "run", "-")
  /\ connected' = TRUE
  /\ UNCHANGED keep_running

\* the session fails (while connecting or when open): ws_on_error only logs
ws_on_error(t) ==
  /\ pc[t] \in {"conn", "run"}
  /\ ThreadStep(t, pc[t], "closing", "-")
  /\ UNCHANGED <<connected, keep_running>>

\* mutant of ws_on_close: self.connected is left as it is
ws_on_close_KeepsConnected(t) ==
  /\ pc[t] \in {"conn", "run", "closing"}
  /\ ThreadStep(t, pc[t], "after", "-")
  /\ UNCHANGED <<connected, keep_running>>

\* the session ends: closed by the peer, by close(), or after an error
ws_on_close(t) ==
  /\ pc[t] \in {"conn", "run", "closing"}
  /\ ThreadStep(t, pc[t], "after", "-")
  /\ connected' = FALSE
  /\ UNCHANGED keep_running

\* the receive loop reads the next text frame of a running session
ws_read(t) ==
  /\ keep_running
  /\ ThreadStep(t, "run", "msg", "-")
  /\ UNCHANGED <<connected, keep_running>>

\* mutant of loop_after: no delay before the next turn of the loop
loop_after_NoDelay(t) ==
  /\ ThreadStep(t, "after", "check", "-")
  /\ UNCHANGED <<connected, keep_running>>

\* "if not self.killed: time.sleep(2)"
loop_after(t) ==
  /\ ThreadStep(t, "after", IF ~killed THEN "sleep" ELSE "check", "-")
  /\ UNCHANGED <<connected, keep_running>>

loop_sleep(t) ==
  /\ ThreadStep(t, "sleep", "check", "-")
  /\ UNCHANGED <<connected, keep_running>>

\* -------------------------------------------------------------- dispatcher
MatcherInputs == {NoMatcher} \cup {Str(n) : n \in 1..(MaxMatcher + MaxRepeat)}

InFrame(type, m, topic, flag) ==
  [type |-> type, matcher |-> m, topic |-> topic, flag |-> flag]

\* inbound frames; flag is data.success of an auth frame and the presence of
\* data in a service or pub frame; "none" is a frame without a type
FrameInputs ==
  {InFrame(ty, m, NoTopic, FALSE) : ty \in {"err", "ack", "cs_ping"}, m \in MatcherInputs}
  \cup {InFrame("service", m, NoTopic, b) : m \in MatcherInputs, b \in BOOLEAN}
  \cup {InFrame("pub", NoMatcher, tp, TRUE) : tp \in PushTopics}
  \cup {InFrame("pub", NoMatcher, NoTopic, FALSE)}
  \cup {InFrame("auth", NoMatcher, NoTopic, b) : b \in BOOLEAN}
  \cup {InFrame(ty, NoMatcher, NoTopic, FALSE) : ty \in {"none", "other"}}

\* "matcher is not None and matcher in self.request_map"
Known(fr) == fr.matcher # NoMatcher /\ fr.matcher \in DOMAIN request_map

NoCall == [fn |-> "-", args |-> <<>>]
Target(fn, args) == [fn |-> fn, args |-> args]

\* the call an err frame makes on the popped record: cb(err_msg) when the
\* stored args are None, cb(*([err_msg] + args)) otherwise, which raises
\* TypeError unless args is a list
ErrCall(rec) ==
  CASE rec.eargs.typ = "none" -> Target(rec.ecb, <<"denied">>)
    [] rec.eargs.typ = "list" -> Target(rec.ecb, <<"denied">> \o rec.eargs.v)
    [] OTHER -> NoCall

\* cb(*args): raises TypeError when args is None
AckCall(rec) ==
  IF rec.sargs.typ = "none" THEN NoCall ELSE Target(rec.scb, rec.sargs.v)

\* mutant of ServiceCall: the data is dropped, cb(*args) in both cases
ServiceCall_IgnoresData(rec, hasData) == AckCall(rec)

\* cb(*([data] + args)) when data is present, cb(*args) otherwise
ServiceCall(rec, hasData) ==
  IF hasData
  THEN IF rec.sargs.typ = "list" THEN Target(rec.scb, <<"data">> \o rec.sargs.v)
       ELSE NoCall
  ELSE AckCall(rec)

\* on_success()
PingCall(rec) == Target(rec.scb, <<>>)

ReplyCall(fr, rec) ==
  CASE fr.type = "err" -> ErrCall(rec)
    [] fr.type = "ack" -> AckCall(rec)
    [] fr.type = "service" -> ServiceCall(rec, fr.flag)
    [] OTHER -> PingCall(rec)

\* the positional parameters of the client's own callbacks; a call with
\* another number of arguments raises TypeError before the body runs
Arity(fn) ==
  CASE fn = "add_callback" -> {4}
    [] fn \in {"rm_callback", "add_pub_callback", "rm_pub_callback"} -> {2}
    [] OTHER -> 0..8

Invoked(tg) == tg.fn # "-" /\ Len(tg.args) \in Arity(tg.fn)

\* add_callback / rm_callback / add_pub_callback / rm_pub_callback
add_callback(rec) == Put(callbacks, rec.topic, [cb |-> rec.ucb, args |-> rec.uargs])
\* mutant of rm_callback: the entry of self.callbacks is left in place
rm_callback_KeepsEntry(rec) == callbacks
rm_callback(rec) == Pop(callbacks, rec.topic)
\* rm_callback pops self.callbacks first: a missing key raises there
rm_callback_sub(rec) ==
  IF rec.topic \in DOMAIN callbacks THEN KeyDel(sub_topics, rec.topic) ELSE sub_topics

CallbacksAfter(tg, rec) ==
  CASE ~Invoked(tg) -> callbacks
    [] tg.fn = "add_callback" -> add_callback(rec)
    [] tg.fn = "rm_callback" -> rm_callback(rec)
    [] OTHER -> callbacks

SubTopicsAfter(tg, rec) ==
  CASE ~Invoked(tg) -> sub_topics
    [] tg.fn = "add_callback" -> KeyAdd(sub_topics, rec.topic)
    [] tg.fn = "rm_callback" -> rm_callback_sub(rec)
    [] OTHER -> sub_topics

PubTopicsAfter(tg, rec) ==
  CASE ~Invoked(tg) -> pub_topics
    [] tg.fn = "add_pub_callback" -> KeyAdd(pub_topics, rec.topic)
    [] tg.fn = "rm_pub_callback" -> KeyDel(pub_topics, rec.topic)
    [] OTHER -> pub_topics

\* history: the subscription installed or removed by a reply of the given shape
SubHistory(h, rec, applies) ==
  CASE applies /\ rec.kind = "addSub" -> Put(h, rec.topic, [cb |-> rec.ucb, args |-> rec.uargs])
    [] applies /\ rec.kind = "rmSub" -> Pop(h, rec.topic)
    [] OTHER -> h

IsAck(fr) == fr.type = "ack"
IsSuccessReply(fr) == fr.type = "ack" \/ (fr.type = "service" /\ ~fr.flag)

\* a dict iterator after the dict went from q to q2: a removed key is no
\* longer to come, an inserted key is appended to the entries and is to come
IterAfter(o, q, q2) ==
  [o EXCEPT !.todo = SelectSeq(o.todo, LAMBDA x : x \in Keys(q2))
                     \o SelectSeq(q2, LAMBDA x : x \notin Keys(q))]

CopAfter(subs2, pubs2) ==
  [c \in Callers |->
     CASE cpc[c] = "stop_sub" -> IterAfter(cop[c], sub_topics, subs2)
       [] cpc[c] = "stop_pub" -> IterAfter(cop[c], pub_topics, pubs2)
       [] OTHER -> cop[c]]

\* err / ack / service / cs_ping with a known matcher: pop the record, call
process_reply(t, fr) ==
  LET rec == request_map[fr.matcher]
      tg == ReplyCall(fr, rec)
  IN  /\ request_map' = Pop(request_map, fr.matcher)
      /\ calls' = IF Invoked(tg) THEN <<Call(tg.fn, tg.args, fr.matcher)>> ELSE <<>>
      /\ callbacks' = CallbacksAfter(tg, rec)
      /\ sub_topics' = SubTopicsAfter(tg, rec)
      /\ pub_topics' = PubTopicsAfter(tg, rec)
      /\ cop' = CopAfter(SubTopicsAfter(tg, rec), PubTopicsAfter(tg, rec))
      /\ resolved' = IF Invoked(tg) THEN resolved \cup {fr.matcher} ELSE resolved
      /\ ackSub' = SubHistory(ackSub, rec, IsAck(fr))
      /\ okSub' = SubHistory(okSub, rec, IsSuccessReply(fr))
      /\ subAsked' = IF IsAck(fr) /\ rec.kind = "rmSub"
                     THEN subAsked \ {rec.topic} ELSE subAsked
      /\ ev' = Ev("frame", fr.type, "thread", rec.topic, fr.matcher, rec.kind, fr.flag)
      /\ pc' = [pc EXCEPT ![t] = "run"]
      /\ sent' = <<>>
      /\ UNCHANGED <<killed, connected, ns, matcher, nthreads, keep_running,
                     tjoin, cpc, handles, lastIssued, stopReturned>>

\* process_pub(data): cb(data, *args) on the stored (callback, args); a topic
\* without an entry gives (None, None), whose call raises TypeError
process_pub(t, fr) ==
  /\ calls' = IF fr.flag /\ fr.topic \in DOMAIN callbacks
              THEN <<Call(callbacks[fr.topic].cb,
                          <<"data">> \o callbacks[fr.topic].args, NoMatcher)>>
              ELSE <<>>
  /\ ev' = Ev("frame", "pub", "thread", fr.topic, NoMatcher, "-", fr.flag)
  /\ pc' = [pc EXCEPT ![t] = "run"]
  /\ sent' = <<>>
  /\ UNCHANGED <<killed, connected, ns, matcher, request_map, registries,
                 nthreads, keep_running, tjoin, cpc, cop, handles, history,
                 stopReturned>>

\* an auth frame whose data.success is not truthy: stop() in this thread;
\* join() on the current thread raises RuntimeError, on another thread it waits
process_auth_fail(t, fr) ==
  /\ StopRequests
  /\ keep_running' = FALSE
  /\ pc' = [pc EXCEPT ![t] = IF nthreads = t THEN "run" ELSE "injoin"]
  /\ tjoin' = [tjoin EXCEPT ![t] = IF nthreads = t THEN 0 ELSE nthreads]
  /\ ev' = Ev("frame", "auth", "thread", NoTopic, NoMatcher, "-", fr.flag)
  /\ calls' = <<>>
  /\ UNCHANGED <<connected, ns, registries, nthreads, cpc, cop, handles,
                 resolved, ackSub, okSub, subAsked, stopReturned>>

\* mutant of process_ignored: a frame that matches nothing ends the client
process_ignored_Kills(t, fr) ==
  /\ killed' = TRUE
  /\ ev' = Ev("frame", fr.type, "thread", NoTopic, fr.matcher, "-", fr.flag)
  /\ pc' = [pc EXCEPT ![t] = "run"]
  /\ sent' = <<>>
  /\ calls' = <<>>
  /\ UNCHANGED <<connected, ns, matcher, request_map, registries, nthreads,
                 keep_running, tjoin, cpc, cop, handles, history, stopReturned>>

\* frames that change nothing: no type, auth success, unknown type, and a
\* reply whose matcher is absent or unknown
process_ignored(t, fr) ==
  /\ ev' = Ev("frame", fr.type, "thread", NoTopic, fr.matcher, "-", fr.flag)
  /\ pc' = [pc EXCEPT ![t] = "run"]
  /\ sent' = <<>>
  /\ calls' = <<>>
  /\ UNCHANGED <<killed, connected, ns, matcher, request_map, registries,
                 nthreads, keep_running, tjoin, cpc, cop, handles, history,
                 stopReturned>>

IsReply(fr) == fr.type \in {"err", "ack", "service", "cs_ping"}

\* ws_on_message -> process_msg on the frame the receive loop has read
process_msg(t) ==
  /\ pc[t] = "msg"
  /\ \E fr \in FrameInputs :
       CASE IsReply(fr) /\ Known(fr) -> process_reply(t, fr)
         [] fr.type = "pub" -> process_pub(t, fr)
         [] fr.type = "auth" /\ ~fr.flag -> process_auth_fail(t, fr)
         [] OTHER -> process_ignored(t, fr)

\* stop() called inside a supervising thread returns once join() returns
thread_join(t) ==
  /\ pc[t] = "injoin"
  /\ JoinReturns(tjoin[t])
  /\ pc' = [pc EXCEPT ![t] = "run"]
  /\ tjoin' = [tjoin EXCEPT ![t] = 0]
  /\ stopReturned' = TRUE
  /\ ev' = Ev("done", "stop", "thread", NoTopic, NoMatcher, "-", connected)
  /\ sent' = <<>>
  /\ calls' = <<>>
  /\ UNCHANGED <<killed, connected, ns, matcher, request_map, registries,
                 nthreads, keep_running, cpc, cop, handles, history>>

\* ------------------------------------------------------------ specification
OutboundNext(c) ==
  \/ add_sub(c) \/ rm_sub(c) \/ add_pub(c) \/ rm_pub(c) \/ pub(c)
  \/ service_call(c) \/ ping(c)
  \/ make_req_matcher_store(c) \/ op_send(c)

StopNext(c) ==
  \/ stop_begin(c) \/ stop_rm_all_sub(c) \/ stop_rm_all_pub(c)
  \/ stop_close(c) \/ stop_join(c)

LoopNext(t) ==
  \/ loop_check(t) \/ run_forever(t) \/ ws_on_open(t) \/ ws_on_error(t)
  \/ ws_on_close(t) \/ ws_read(t) \/ process_msg(t) \/ loop_after(t)
  \/ loop_sleep(t)

\* no supervising loop is running
NoLoopAlive == \A t \in Threads : pc[t] \in {"unborn", "done"}

\* one caller context; start() is called only while no loop is running
Next ==
  \/ OutboundNext("c1")
  \/ (NoLoopAlive /\ start("c1"))
  \/ StopNext("c1")
  \/ \E t \in Threads : LoopNext(t)

Spec == Init /\ [][Next]_vars

\* start() and stop() called at any time, with one kind of request (no topic
\* is ever registered, so that the loops of stop() have no turn to take)
LifeNext ==
  \/ start("c1")
  \/ stop_begin("c1") \/ stop_close("c1") \/ stop_join("c1")
  \/ service_call("c1") \/ make_req_matcher_store("c1") \/ op_send("c1")
  \/ \E t \in Threads : LoopNext(t) \/ run_forever_raises(t) \/ thread_join(t)

SpecLife == Init /\ [][LifeNext]_vars

\* the progress the threads and the transport library give: a supervising
\* thread goes on through the statements of sock_manager, a frame that was
\* read is processed, and a session that had an error or that was closed by
\* close() comes to its end
LoopProgress(t) ==
  /\ WF_vars(loop_check(t))
  /\ WF_vars(run_forever(t))
  /\ WF_vars(loop_after(t))
  /\ WF_vars(loop_sleep(t))
  /\ WF_vars(process_msg(t))
  /\ WF_vars((~keep_running \/ pc[t] = "closing") /\ ws_on_close(t))

\* one loop at a time as in Spec, with subscriptions as the one kind of
\* request, under LoopProgress
FairNext ==
  \/ add_sub("c1") \/ make_req_matcher_store("c1") \/ op_send("c1")
  \/ (NoLoopAlive /\ start("c1"))
  \/ stop_begin("c1") \/ stop_rm_all_sub("c1") \/ stop_close("c1")
  \/ stop_join("c1")
  \/ \E t \in Threads : LoopNext(t)

SpecFair == Init /\ [][FairNext]_vars /\ \A t \in Threads : LoopProgress(t)

\* outbound operations and namespace changes issued from two caller contexts,
\* never connected
RaceNext ==
  \E c \in Callers :
    \/ add_sub(c) \/ add_pub(c) \/ service_call(c) \/ ping(c)
    \/ set_namespace_op(c) \/ make_req_matcher_store(c) \/ op_send(c)

SpecRace == Init /\ [][RaceNext]_vars

\* get_fully_qualified_topic on its own: a caller holds a non-empty topic
\* string, self.ns holds a value the constructor or set_namespace gives, and
\* the function is applied to the string and then to its own result
TopicChars == {"a", "/"}
TopicStrings == UNION {[1..k -> TopicChars] : k \in 1..MaxTopicLen}
NsValues == {<<"/">>} \cup {set_namespace(n) : n \in NsInputs}

InitTopic ==
  /\ killed = FALSE
  /\ connected = FALSE
  /\ ns \in NsValues
  /\ matcher = 0
  /\ callbacks = EmptyDict
  /\ request_map = EmptyDict
  /\ pub_topics = <<>>
  /\ sub_topics = <<>>
  /\ nthreads = 0
  /\ keep_running = FALSE
  /\ pc = [t \in Threads |-> "unborn"]
  /\ tjoin = [t \in Threads |-> 0]
  /\ cpc = [c \in Callers |-> "idle"]
  /\ \E raw \in TopicStrings :
       cop = [c \in Callers |->
                IF c = "c1" THEN [NoOp EXCEPT !.op = "resolve", !.topic = raw]
                ELSE NoOp]
  /\ handles = {}
  /\ sent = <<>>
  /\ calls = <<>>
  /\ ev = Ev("init", "-", "-", NoTopic, NoMatcher, "-", FALSE)
  /\ resolved = {}
  /\ ackSub = EmptyDict
  /\ okSub = EmptyDict
  /\ subAsked = {}
  /\ lastIssued = 0
  /\ stopReturned = FALSE

\* the results so far are kept in args: the function is applied to the topic
\* first and to its last result afterwards
resolve_topic(c) ==
  /\ cop[c].op = "resolve"
  /\ Len(cop[c].args) < 2
  /\ LET o == cop[c]
         arg == IF o.args = <<>> THEN o.topic ELSE o.args[Len(o.args)]
         res == get_fully_qualified_topic(ns, arg)
     IN  /\ cop' = [cop EXCEPT ![c] = [o EXCEPT !.args = Append(o.args, res)]]
         /\ ev' = Ev("ret", "resolve", c, res, NoMatcher, "-", FALSE)
  /\ sent' = <<>>
  /\ calls' = <<>>
  /\ UNCHANGED <<killed, connected, ns, matcher, request_map, registries,
                 threadv, cpc, handles, history, stopReturned>>

TopicNext == resolve_topic("c1")

SpecTopic == InitTopic /\ [][TopicNext]_vars

\* ------------------------------------------------------------------ claims
ReplyOps == {"add_sub", "rm_sub", "add_pub", "rm_pub", "service_call", "ping"}

\* C1: every callback invocation made for a matcher is the first one made for
\* that matcher, and it leaves no record for the matcher in request_map.
C1_OneResolution ==
  [][\A i \in 1..Len(calls') :
       calls'[i].m # NoMatcher =>
         /\ calls'[i].m \notin resolved
         /\ calls'[i].m \notin DOMAIN request_map']_vars

\* C2: a reply-expecting request issued while not connected has invoked its
\* error callback when the call returns, and has left no record for its
\* matcher in request_map.
C2_UnsentFailsAtOnce ==
  (ev.kind = "done" /\ ev.op \in ReplyOps /\ ~ev.flag) =>
    /\ \E i \in 1..Len(calls) : calls[i].m = ev.m
    /\ ev.m \notin DOMAIN request_map

\* C3 as stated: an add_sub call that follows another add_sub call on the same
\* resolved topic, with no rmSub ack in between, sends nothing and creates no
\* pending record.
C3_RepeatedAddSubIsNoOp ==
  (ev.op = "add_sub" /\ ev.kind \in {"ret", "done"} /\ ev.rk = "again") =>
    /\ sent = <<>>
    /\ ev.m \notin DOMAIN request_map

\* C3 as amended: an add_sub call made on a topic whose addSub request has been
\* answered successfully (by an ack frame or a service frame without data, and
\* no rmSub on it answered successfully since) returns at its guard, having
\* sent nothing and stored nothing; a call made on any other topic goes on to
\* make a matcher, store a record and send.
C3_SubscribedAddSubIsNoOp ==
  /\ (ev.op = "add_sub" /\ ev.kind = "call") => ev.topic \notin DOMAIN okSub
  /\ (ev.op = "add_sub" /\ ev.kind = "ret") =>
       /\ ev.topic \in DOMAIN okSub
       /\ sent = <<>>
       /\ ev.m = NoMatcher
       /\ cpc[ev.who] = "idle"

\* C3 witness: a second add_sub on an acknowledged topic has just returned
C3_Witness ==
  /\ ev.op = "add_sub" /\ ev.kind = "ret" /\ ev.rk = "again"
  /\ ev.topic \in DOMAIN okSub
  /\ sent = <<>>

\* C4: a pub call whose resolved topic is not in pub_topics returns at its
\* guard, having sent nothing; only a call on a registered topic goes on to
\* make a matcher and send.
C4_UnregisteredPubSendsNothing ==
  /\ (ev.op = "pub" /\ ev.kind = "call") => ev.topic \in Keys(pub_topics)
  /\ (ev.op = "pub" /\ ev.kind = "ret") =>
       (ev.topic \notin Keys(pub_topics) /\ sent = <<>> /\ cpc[ev.who] = "idle")

\* C4 witness: pub through a Publisher handle whose addPub is still pending
C4_Witness ==
  /\ ev.op = "pub" /\ ev.kind = "ret" /\ ev.topic \in handles
  /\ \E m \in DOMAIN request_map :
       request_map[m].kind = "addPub" /\ request_map[m].topic = ev.topic
  /\ sent = <<>>

\* the calls a pub push for topic tp makes when h holds the subscriptions
PushCalls(h, tp) ==
  IF tp \in DOMAIN h THEN <<Call(h[tp].cb, <<"data">> \o h[tp].args, NoMatcher)>>
  ELSE <<>>

\* C5 as stated: a pub push for T invokes a callback iff an ack frame for a
\* pending addSub on T was processed before it and no ack frame for an rmSub
\* on T since; the callback is the one that add_sub stored, called with the
\* data followed by the stored args.
C5_PushReachesAckedSub ==
  (ev.kind = "frame" /\ ev.op = "pub" /\ ev.flag) => calls = PushCalls(ackSub, ev.topic)

\* C5 as amended: the same, with "ack frame" widened to "successful reply": an
\* ack frame or a service frame that carries no data.
C5_PushReachesInstalledSub ==
  (ev.kind = "frame" /\ ev.op = "pub" /\ ev.flag) => calls = PushCalls(okSub, ev.topic)

\* C5 witness: a push reaches f with the data and then the stored x, y
C5_Witness ==
  /\ ev.kind = "frame" /\ ev.op = "pub"
  /\ calls = <<Call("f", <<"data", "x", "y">>, NoMatcher)>>

\* C6: an err frame for a pending addSub removes the record, invokes the
\* record's error callback with the verbose text, and leaves the topic out of
\* sub_topics and callbacks.
C6_ErrOnAddSub ==
  (ev.kind = "frame" /\ ev.op = "err" /\ ev.rk = "addSub") =>
    /\ ev.m \notin DOMAIN request_map
    /\ Len(calls) = 1
    /\ calls[1].fn = "empty_callback" /\ Head(calls[1].args) = "denied"
    /\ ev.topic \notin Keys(sub_topics)
    /\ ev.topic \notin DOMAIN callbacks

\* C7: once stop() has returned and start() was not called again, no inbound
\* frame invokes a callback or resolves a pending record.
C7_QuietAfterStop ==
  stopReturned => ~(ev.kind = "frame" /\ (calls # <<>> \/ ev.rk # "-"))

\* C8: no transport session begins while the kill flag is set.
C8_NoSessionAfterKill == ~(ev.kind = "loop" /\ ev.op = "run_forever" /\ killed)

\* C9: every value make_req_matcher returns is greater than the one it
\* returned before.
C9_MatchersIncrease ==
  [][\A c \in Callers :
       (cpc[c] = "send" /\ cpc'[c] = "idle") => lastIssued' > lastIssued]_vars

\* C10: at most one supervising loop is running.
C10_OneLoop == Cardinality({t \in Threads : pc[t] \notin {"unborn", "done"}}) <= 1

\* C11: once stop() has returned and start() was not called again, sub_topics,
\* callbacks and pub_topics hold no topic.
C11_NothingOutlivesStop ==
  stopReturned => (sub_topics = <<>> /\ callbacks = EmptyDict /\ pub_topics = <<>>)

\* what the add_pub call that has just returned gave back: the bare return at
\* its guard gives None, the end of the function a Publisher
add_pub_returns == IF ev.kind = "done" THEN "Publisher" ELSE "None"

\* C12: every add_pub call returns a Publisher handle, also when the topic is
\* already in pub_topics.
C12_AddPubReturnsHandle ==
  (ev.op = "add_pub" /\ ev.kind \in {"ret", "done"}) => add_pub_returns = "Publisher"

\* the frames of the given type in a log of sent frames, as their topics
LogTopics(log, type) ==
  [i \in 1..Len(SelectSeq(log, LAMBDA f : f.type = type)) |->
     SelectSeq(log, LAMBDA f : f.type = type)[i].topic]

\* a sequence that lists every element of the set exactly once
ListsOnce(q, S) == Keys(q) = S /\ Len(q) = Cardinality(S)

\* C18: a stop() call made while connected never ends in its removal loops, and
\* when it comes to close the transport it has sent exactly one rmSub frame
\* for each topic sub_topics held when it began and exactly one rmPub frame for
\* each topic pub_topics held then.
C18_StopIssuesEveryRemoval ==
  /\ ~(ev.kind = "raise" /\ ev.op = "stop" /\ ev.flag)
  /\ \A c \in Callers :
       (cpc[c] = "stop_close" /\ cop[c].wasConn /\ connected) =>
         /\ ListsOnce(LogTopics(cop[c].log, "rmSub"), cop[c].subs0)
         /\ ListsOnce(LogTopics(cop[c].log, "rmPub"), cop[c].pubs0)

\* C14 as stated: sub_topics, callbacks and pub_topics change only in a step
\* that processes an ack frame with a known matcher.
C14_MapsChangeOnAckOnly ==
  [][registries' # registries =>
       (ev'.kind = "frame" /\ ev'.op = "ack" /\ ev'.rk # "-")]_vars

\* C14 as amended: they change only in a step that processes, with a known
\* matcher, an ack frame or a service frame that carries no data; every caller
\* operation and every err, pub, cs_ping and data-carrying service frame leaves
\* them unchanged.
C14_MapsChangeOnSuccessReplyOnly ==
  [][registries' # registries =>
       /\ ev'.kind = "frame" /\ ev'.rk # "-"
       /\ ev'.op = "ack" \/ (ev'.op = "service" /\ ~ev'.flag)]_vars

\* C14 witness: a service frame without data has just installed a subscription
C14_Witness ==
  /\ ev.kind = "frame" /\ ev.op = "service" /\ ~ev.flag /\ ev.rk = "addSub"
  /\ ev.topic \in Keys(sub_topics) /\ ev.topic \in DOMAIN callbacks

\* the transport events, as steps of thread t
OpenEvent(t) == pc[t] = "conn" /\ pc'[t] = "run"
ErrorEvent(t) == pc[t] \in {"conn", "run"} /\ pc'[t] = "closing"
CloseEvent(t) == pc[t] \in {"conn", "run", "closing"} /\ pc'[t] = "after"
TablesKept == UNCHANGED <<request_map, registries, matcher>>

\* C15 as stated: open sets connected, close and error clear it, and all three
\* leave request_map, the registries and the matcher counter unchanged.
C15_TransportEventsSetConnected ==
  [][\A t \in Threads :
       /\ OpenEvent(t) => (connected' /\ TablesKept)
       /\ ErrorEvent(t) => (~connected' /\ TablesKept)
       /\ CloseEvent(t) => (~connected' /\ TablesKept)]_vars

\* C15 as amended: open sets connected, close clears it, the error event leaves
\* it as it was; all three leave request_map, the registries and the matcher
\* counter unchanged.
C15_ErrorEventKeepsConnected ==
  [][\A t \in Threads :
       /\ OpenEvent(t) => (connected' /\ TablesKept)
       /\ ErrorEvent(t) => (connected' = connected /\ TablesKept)
       /\ CloseEvent(t) => (~connected' /\ TablesKept)]_vars

\* C15 witness: the error event has happened on an open connection, with a
\* record still pending
C15_Witness ==
  \E t \in Threads :
    pc[t] = "closing" /\ connected /\ request_map # EmptyDict

\* C16: a step that processes an err, ack, service or cs_ping frame whose
\* matcher is absent or is not a key of request_map invokes no callback and
\* leaves request_map, the registries, the matcher counter and the session
\* state unchanged.
C16_UnknownMatcherIsNoOp ==
  [][(/\ ev'.kind = "frame"
      /\ ev'.op \in {"err", "ack", "service", "cs_ping"}
      /\ (ev'.m = NoMatcher \/ ev'.m \notin DOMAIN request_map))
     => /\ calls' = <<>>
        /\ sent' = <<>>
        /\ UNCHANGED <<request_map, registries, matcher, connected, killed,
                       keep_running>>]_vars

\* C16 witness: an ack for an already resolved matcher was ignored while
\* another record is pending
C16_Witness ==
  /\ ev.kind = "frame" /\ ev.op = "ack" /\ ev.rk = "-"
  /\ ev.m \in resolved /\ ev.m \notin DOMAIN request_map
  /\ request_map # EmptyDict /\ calls = <<>>

\* the steps by which thread t comes to a new session, and what precedes each
DelayBeforeSession(t) ==
  /\ (pc'[t] = "conn" /\ pc[t] # "conn") => pc[t] = "call"
  /\ (pc'[t] = "call" /\ pc[t] # "call") => (pc[t] = "check" /\ ~killed)
  /\ (pc'[t] = "check" /\ pc[t] # "check") =>
       (pc[t] \in {"unborn", "sleep"} \/ (pc[t] = "after" /\ killed))
  /\ (pc[t] = "after" /\ pc'[t] # "after" /\ ~killed) => pc'[t] = "sleep"

\* C13: whenever a session of a supervising loop has ended with the kill flag
\* clear, the loop starts a new session later on unless the kill flag gets set,
\* any number of times; and a loop comes to a new session only through its
\* kill-flag test, which it reaches after a session only through the delay
\* when the kill flag was clear at the session's end.
C13_RetriesAfterDelay ==
  /\ \A t \in Threads : (pc[t] = "after" /\ ~killed) ~> (pc[t] = "conn" \/ killed)
  /\ [][\A t \in Threads : DelayBeforeSession(t)]_vars

\* C13 witness: the first loop, which processed a reply in a session, is about
\* to open a new session
C13_Witness ==
  /\ nthreads = 1 /\ pc[1] = "conn" /\ ~killed /\ ~connected
  /\ okSub # EmptyDict

\* an auth frame without success was processed in the last step, by thread t
AuthFailed(t) ==
  /\ ev.kind = "frame" /\ ev.op = "auth" /\ ~ev.flag
  /\ pc[t] \notin {"unborn", "done"}

\* C17: the step that processes an auth frame without success sets the kill
\* flag and closes the transport; a loop that is in a session or between a
\* session and its kill-flag test while the flag is set starts no session; and
\* the loop that processed the frame exits.
C17_AuthFailureStops ==
  /\ [][(ev'.kind = "frame" /\ ev'.op = "auth" /\ ~ev'.flag) =>
          (killed' /\ ~keep_running')]_vars
  /\ [][\A t \in Threads :
          (killed /\ pc[t] \in {"run", "msg", "closing", "after", "check"}) =>
            pc'[t] \notin {"call", "conn"}]_vars
  /\ \A t \in Threads : AuthFailed(t) ~> (pc[t] = "done")

\* C17 witness: the stop() made for an auth failure has sent an rmSub frame,
\* set the kill flag and closed the transport, inside the running session
C17_Witness ==
  /\ \E t \in Threads : AuthFailed(t) /\ pc[t] = "run"
  /\ killed /\ ~keep_running /\ connected
  /\ \E i \in 1..Len(sent) : sent[i].type = "rmSub"

\* C19: a step in which an ack frame resolves a pending rmSub record finds the
\* record's topic in sub_topics and in callbacks, and one that resolves a
\* pending rmPub record finds it in pub_topics, so that the pop of rm_callback
\* and of rm_pub_callback finds its key.
C19_RemovalFindsItsKey ==
  [][(ev'.kind = "frame" /\ ev'.op = "ack") =>
       /\ ev'.rk = "rmSub" =>
            (ev'.topic \in Keys(sub_topics) /\ ev'.topic \in DOMAIN callbacks)
       /\ ev'.rk = "rmPub" => ev'.topic \in Keys(pub_topics)]_vars

\* C20: under a fixed namespace, get_fully_qualified_topic applied to its own
\* result gives that result again, for every non-empty topic string; so the
\* key that add_sub / add_pub stores (the first result) is the key that
\* rm_all_sub / rm_all_pub looks up when it resolves the stored key again (the
\* second result).
C20_ResolveIsIdempotent ==
  \A c \in Callers :
    (cop[c].op = "resolve" /\ Len(cop[c].args) = 2) => cop[c].args[2] = cop[c].args[1]

====
